---- MODULE Spec2Model ----
(***************************************************************************)
(* uStreamer capture device (src/src/device.c): the open / close pipeline, *)
(* the streaming switch and the grab / release protocol that hands         *)
(* hardware buffers from the capture thread to the worker threads.         *)
(*                                                                         *)
(* The kernel side (V4L2 queue, mmap/munmap, the allocator) is the         *)
(* environment: every kernel request answers nondeterministically, and the *)
(* answers a driver gives only when it misbehaves are separate actions.    *)
(***************************************************************************)
EXTENDS Integers, FiniteSets, Sequences, TLC

\* ---------------------------------------------------------------- bounds
\* dev->n_buffers: the number of buffers requested; the device grants 0..MaxBuffers.
MaxBuffers == 2
\* Worker threads that run device_release_buffer concurrently: 1..MaxWorkers,
\* of which those up to run->n_workers are started.
MaxWorkers == 1

\* The code copies buf_info.bytesused and get_now_monotonic() without looking at
\* them: one non-zero frame size and one non-zero clock reading stand for all.
BytesUsed == {1}
ClockReadings == {1}

\* ------------------------------------------------------------- vocabulary
NULL == <<>>
IsNull(a) == DOMAIN a = {}

\* Threads: the capture (main) thread is 0, worker threads are 1..MaxWorkers;
\* NoOwner is an unlocked mutex.
CaptureThread == 0
Workers == 1..MaxWorkers
NoOwner == 0 - 1

\* Resolution ceiling (device.h, not part of the sources at hand), and the
\* values a width / height takes here: zero, the configured one, above the ceiling.
VIDEO_MAX_WIDTH == 10000
VIDEO_MAX_HEIGHT == 10000
Widths == {0, 640, VIDEO_MAX_WIDTH + 1}
Heights == {0, 480, VIDEO_MAX_HEIGHT + 1}

\* _FORMATS[]: the recognised pixel formats; "XXXX" stands for any other fourcc.
FORMATS == {"YUYV", "UYVY", "RGB565", "RGB24", "MJPEG", "JPEG"}

Indices == 0..(MaxBuffers - 1)

\* struct v4l2_buffer as far as the code reads it; MEMSET_ZERO/calloc gives ZeroBuf.
ZeroBuf == [type |-> "NONE", index |-> 0, bytesused |-> 0]
CaptureBuf(i, b) == [type |-> "VIDEO_CAPTURE", index |-> i, bytesused |-> b]

\* One hw_buffers[] element as A_CALLOC leaves it.
ZeroHwBuffer ==
    [data |-> "NULL", allocated |-> 0, grabbed |-> FALSE, used |-> 0,
     buf_info |-> ZeroBuf, mutex_init |-> FALSE, mutex_owner |-> NoOwner]

\* Accounting of the address space kept by the environment, per pool slot:
\* successful mmap calls, munmap calls, aligned_alloc calls, free calls.
ZeroMem == [i \in Indices |-> [map |-> 0, unmap |-> 0, alloc |-> 0, free |-> 0]]

\* A clamp that is none: the first argument, whatever the second.
first_u(a, b) == a

min_u(a, b) == IF a < b THEN a ELSE b

Range(q) == {q[k] : k \in DOMAIN q}

VARIABLES
    dev,          \* struct device_t: the configuration
    fd,           \* run->fd
    capturing,    \* run->capturing
    n_buffers,    \* run->n_buffers
    n_workers,    \* run->n_workers
    hw_buffers,   \* run->hw_buffers: NULL or [0..count-1 -> hw buffer]
    pictures,     \* run->pictures: NULL or [0..n_buffers-1 -> grab_ts]
    width,        \* run->width
    height,       \* run->height
    format,       \* run->format
    raw_size,     \* run->raw_size
    pc,           \* position of the capture (main) thread
    index,        \* _device_open_queue_buffers' loop counter
    step_ret,     \* return value of the last device_open helper
    open_ret,     \* return value of device_open, at pc = "open_done" (else 1)
    fatal,        \* the step of the running device_open that failed, or "none"
    buf_info,     \* device_grab_buffer's local struct v4l2_buffer
    grab_ret,     \* return value of device_grab_buffer, at pc = "grab_done" (else -2)
    grab_dirty,   \* the running device_grab_buffer call has changed a slot
    rel_pc,       \* position of each worker inside device_release_buffer
    rel_idx,      \* the index each worker passed to device_release_buffer
    rel_ret,      \* return value of device_release_buffer, at rel_pc = "done"
    rel_obs,      \* per running release: was the flag clear at the lock, VIDIOC_QBUF's answer
    out,          \* indices handed out by a successful grab and not yet released
    sw,           \* the device_switch_capturing call, at pc = "switch_done"
    kq,           \* kernel: state of each granted buffer
    kstream,      \* kernel: streaming on
    mem,          \* environment: map / unmap / alloc / free accounting
    olog,         \* what the running device_open has asked and been answered
    cl,           \* the operations of the last device_close call
    ev,           \* the device_consume_event call, at pc = "event_done"
    ctl           \* a _device_set_control call: its arguments and what it did

vars == <<dev, fd, capturing, n_buffers, n_workers, hw_buffers, pictures,
          width, height, format, raw_size, pc, index,
          step_ret, open_ret, fatal, buf_info, grab_ret, grab_dirty,
          rel_pc, rel_idx, rel_ret, rel_obs, out, sw, kq, kstream, mem,
          olog, cl, ev, ctl>>

runVars == <<fd, n_buffers, n_workers, hw_buffers, pictures>>
grabVars == <<buf_info, grab_ret, grab_dirty>>
relVars == <<rel_pc, rel_idx, rel_ret, rel_obs>>
openVars == <<step_ret, open_ret, fatal, index, olog>>
obsVars == <<cl, ev, ctl>>
fmtVars == <<width, height, format, raw_size>>

\* ------------------------------------------------------------ device_init
\* The configuration is the caller's input to device_open: it is chosen when
\* device_open is called, and the fields that only device_open reads are
\* forgotten (back to DefaultConfig's) when it returns.
DefaultConfig ==
    [io_method |-> "MMAP", n_buffers |-> MaxBuffers, n_workers |-> MaxBuffers - 1,
     dv_timings |-> FALSE, standard |-> "UNKNOWN", width |-> 640, height |-> 480,
     format |-> "YUYV"]

Configs ==
    [io_method : {"MMAP", "USERPTR"},
     n_buffers : {MaxBuffers},
     n_workers : 1..MaxBuffers,
     dv_timings : BOOLEAN,
     standard : {"UNKNOWN"},
     width : Widths,
     height : Heights,
     format : {"YUYV"}]

\* The configurations of a streaming session: both buffer strategies, as many
\* workers as there are worker threads, no DV timings, the default resolution.
PlainConfigs ==
    {c \in Configs : /\ c.n_workers = MaxWorkers /\ ~c.dv_timings
                     /\ c.width = DefaultConfig.width
                     /\ c.height = DefaultConfig.height}

MmapConfigs ==
    {c \in PlainConfigs : c.io_method = "MMAP"}

NoRelease == [clear |-> FALSE, io |-> "NONE"]

NoSwitch == [enable |-> FALSE, was |-> FALSE, requests |-> <<>>, io |-> "NONE",
             ret |-> 0]

\* VIDIOC_QUERYCTRL has nothing usable to say: the request fails, or the
\* control is flagged disabled.
Unsupported == [supported |-> FALSE, minimum |-> 0, maximum |-> 0, step |-> 1,
                default_value |-> 0]

\* What a device_open call has done so far: the steps it has run (a name, a
\* control id, a number), the buffer count VIDIOC_REQBUFS granted (-1: none),
\* the resolution paths on which _device_apply_resolution said no, the pixel
\* format and image size VIDIOC_S_FMT granted, the control settings it has
\* read and what VIDIOC_QUERYCTRL answered to each query it made.
NoOpenLog == [steps |-> <<>>, granted |-> 0 - 1, rejected |-> {}, grant |-> "NONE",
              sizeimage |-> 0,
              ctl |-> [brightness |-> [mode |-> "NONE", value |-> 0],
                       contrast |-> [mode |-> "NONE", value |-> 0]],
              answers |-> <<Unsupported, Unsupported, Unsupported, Unsupported>>]

\* The operations of a device_close call: the slots it has unmapped, freed and
\* whose mutex it has destroyed, whether it has freed the pictures and closed
\* the descriptor, and which of munmap / close answered -1.
NoClose == [pictures |-> FALSE, unmap |-> {}, free |-> {}, destroy |-> {},
            fdclose |-> FALSE, unmap_failed |-> {}, close_failed |-> FALSE]

NoEvent == [dequeued |-> FALSE, type |-> "NONE", ret |-> 0]

\* No _device_set_control call is being looked at.
NoControl == [state |-> "none", minimum |-> 0, maximum |-> 0, step |-> 1,
              value |-> 0, writes |-> <<>>]

InitDevice ==
    /\ dev = DefaultConfig
    /\ fd = 0 - 1
    /\ capturing = FALSE
    /\ n_buffers = 0
    /\ n_workers = 0
    /\ hw_buffers = NULL
    /\ pictures = NULL
    /\ width = 0
    /\ height = 0
    /\ format = "NONE"
    /\ raw_size = 0
    /\ pc = "idle"
    /\ index = 0
    /\ step_ret = 0
    /\ open_ret = 1
    /\ fatal = "none"
    /\ buf_info = ZeroBuf
    /\ grab_ret = 0 - 2
    /\ grab_dirty = FALSE
    /\ rel_pc = [w \in Workers |-> "idle"]
    /\ rel_idx = [w \in Workers |-> 0]
    /\ rel_ret = [w \in Workers |-> 0]
    /\ rel_obs = [w \in Workers |-> NoRelease]
    /\ out = {}
    /\ sw = NoSwitch
    /\ kq = NULL
    /\ kstream = FALSE
    /\ mem = ZeroMem
    /\ olog = NoOpenLog
    /\ cl = NoClose
    /\ ev = NoEvent

Init ==
    /\ InitDevice
    /\ ctl = NoControl

WorkersIdle == \A w \in Workers : rel_pc[w] = "idle"

\* ----------------------------------------------------------- device_close
\* A device_close whose loop stops one buffer short.
CloseMemShort(unmapFails) ==
    [i \in Indices |->
        IF ~IsNull(hw_buffers) /\ i + 1 < n_buffers
        THEN IF dev.io_method = "MMAP"
             THEN IF hw_buffers[i].allocated > 0 /\ hw_buffers[i].data # "MAP_FAILED"
                  THEN [mem[i] EXCEPT !.unmap = @ + 1]
                  ELSE mem[i]
             ELSE IF hw_buffers[i].data # "NULL"
                  THEN [mem[i] EXCEPT !.free = @ + 1]
                  ELSE mem[i]
        ELSE mem[i]]

\* The whole of device_close: unmapFails is the set of indices whose munmap
\* answers -1, closeFails says close(fd) answers -1 (both are only logged).
CloseMem(unmapFails) ==
    [i \in Indices |->
        IF ~IsNull(hw_buffers) /\ i < n_buffers
        THEN IF dev.io_method = "MMAP"
             THEN IF hw_buffers[i].allocated > 0 /\ hw_buffers[i].data # "MAP_FAILED"
                  THEN [mem[i] EXCEPT !.unmap = @ + 1]
                  ELSE mem[i]
             ELSE IF hw_buffers[i].data # "NULL"
                  THEN [mem[i] EXCEPT !.free = @ + 1]
                  ELSE mem[i]
        ELSE mem[i]]

\* The operations the call performs, in the state it starts from.
CloseOps(unmapFails, closeFails) ==
    LET slots == IF IsNull(hw_buffers) THEN {} ELSE {i \in Indices : i < n_buffers}
        unmap == {i \in slots : /\ dev.io_method = "MMAP"
                                /\ hw_buffers[i].allocated > 0
                                /\ hw_buffers[i].data # "MAP_FAILED"}
        free == {i \in slots : dev.io_method # "MMAP" /\ hw_buffers[i].data # "NULL"}
    IN  [pictures |-> ~IsNull(pictures), unmap |-> unmap, free |-> free,
         destroy |-> slots, fdclose |-> fd >= 0,
         unmap_failed |-> unmap \cap unmapFails,
         close_failed |-> fd >= 0 /\ closeFails]

\* A device_close that leaves the descriptor number in run->fd.
device_close_keeps_fd(unmapFails, closeFails) ==
    /\ cl' = CloseOps(unmapFails, closeFails)
    /\ n_workers' = 0
    /\ pictures' = NULL
    /\ mem' = CloseMem(unmapFails)
    /\ hw_buffers' = NULL
    /\ n_buffers' = IF ~IsNull(hw_buffers) THEN 0 ELSE n_buffers
    /\ fd' = fd
    /\ kq' = IF fd >= 0 THEN NULL ELSE kq
    /\ kstream' = IF fd >= 0 THEN FALSE ELSE kstream
    /\ out' = {}

\* A device_close that keeps the descriptor when close(fd) answers -1.
device_close_blockable(unmapFails, closeFails) ==
    /\ cl' = CloseOps(unmapFails, closeFails)
    /\ n_workers' = 0
    /\ pictures' = NULL
    /\ mem' = CloseMem(unmapFails)
    /\ hw_buffers' = NULL
    /\ n_buffers' = IF ~IsNull(hw_buffers) THEN 0 ELSE n_buffers
    /\ fd' = IF fd >= 0 /\ closeFails THEN fd ELSE 0 - 1
    /\ kq' = IF fd >= 0 THEN NULL ELSE kq
    /\ kstream' = IF fd >= 0 THEN FALSE ELSE kstream
    /\ out' = {}

device_close(unmapFails, closeFails) ==
    /\ cl' = CloseOps(unmapFails, closeFails)
    /\ n_workers' = 0
    /\ pictures' = NULL
    /\ mem' = CloseMem(unmapFails)
    /\ hw_buffers' = NULL
    /\ n_buffers' = IF ~IsNull(hw_buffers) THEN 0 ELSE n_buffers
    /\ fd' = 0 - 1
    \* close(fd) ends the kernel's session: its queue and the stream are gone
    /\ kq' = IF fd >= 0 THEN NULL ELSE kq
    /\ kstream' = IF fd >= 0 THEN FALSE ELSE kstream
    /\ out' = {}

\* A close that also puts the capturing flag back to false.
CloseStopping ==
    /\ pc \in {"idle", "close_done"}
    /\ WorkersIdle
    /\ \E unmapFails \in SUBSET Indices, closeFails \in BOOLEAN :
          device_close(unmapFails, closeFails)
    /\ pc' = IF pc = "idle" THEN "close_done" ELSE "close_again"
    /\ capturing' = FALSE
    /\ UNCHANGED <<ev, ctl, dev, fmtVars, openVars, grabVars, relVars, sw>>

\* device_close called by the owner of the device, and called once more
\* directly after it has returned.
Close ==
    /\ pc \in {"idle", "close_done"}
    /\ WorkersIdle
    /\ \E unmapFails \in SUBSET Indices, closeFails \in BOOLEAN :
          device_close(unmapFails, closeFails)
    /\ pc' = IF pc = "idle" THEN "close_done" ELSE "close_again"
    /\ UNCHANGED <<ev, ctl, dev, capturing, fmtVars, openVars, grabVars, relVars, sw>>

CloseReturn ==
    /\ pc \in {"close_done", "close_again"}
    /\ pc' = "idle"
    /\ cl' = NoClose
    /\ UNCHANGED <<ev, ctl, dev, capturing, runVars, fmtVars, openVars, grabVars,
                   relVars, out, sw, kq, kstream, mem>>

\* ------------------------------------------------------------ device_open
\* A device_open that goes on after a failed step.
OpenGotoOn(next) ==
    /\ pc' = next
    /\ fatal' = IF step_ret' < 0 THEN pc ELSE fatal

\* device_open runs one more step.
OpenLogs(step, arg) == [olog EXCEPT !.steps = Append(@, <<step, "", arg>>)]

\* device_open's control flow after each helper: goto error on a negative
\* return, otherwise go on with `next`.
OpenGoto(next) ==
    /\ pc' = IF step_ret' < 0 THEN "error" ELSE next
    /\ fatal' = IF step_ret' < 0 THEN pc ELSE fatal

\* device_open is called with a configuration of `configs`:
\* open(dev->path, O_RDWR|O_NONBLOCK)
OpenDeviceOf(configs) ==
    /\ pc = "idle"
    /\ fd < 0
    /\ IsNull(hw_buffers)
    /\ WorkersIdle
    /\ \E ok \in BOOLEAN :
          /\ fd' = IF ok THEN 3 ELSE 0 - 1
          /\ step_ret' = IF ok THEN 0 ELSE 0 - 1
    /\ OpenGoto("check_cap")
    /\ olog' = [NoOpenLog EXCEPT !.steps = <<<<"open", "", 0>>>>]
    /\ mem' = ZeroMem
    /\ dev' \in configs
    /\ UNCHANGED <<obsVars, capturing, n_buffers, n_workers, hw_buffers, pictures,
                   fmtVars, open_ret, index, grabVars, relVars, out, sw, kq, kstream>>

OpenDevice == OpenDeviceOf(Configs)

OpenDevicePlain == OpenDeviceOf(PlainConfigs)

OpenDeviceMmap == OpenDeviceOf(MmapConfigs)

CapAnswers == {"ok", "querycap_fail", "no_capture", "no_streaming",
               "s_input_fail", "s_std_fail"}

device_open_check_cap(answer) ==
    /\ answer = "s_std_fail" => dev.standard # "UNKNOWN"
    /\ step_ret' = IF answer = "ok" THEN 0 ELSE 0 - 1

OpenCheckCap ==
    /\ pc = "check_cap"
    /\ \E answer \in CapAnswers : device_open_check_cap(answer)
    /\ OpenGoto("dv_timings")
    /\ olog' = OpenLogs("check_cap", 0)
    /\ UNCHANGED <<obsVars, dev, capturing, runVars, fmtVars, open_ret, index, grabVars,
                   relVars, out, sw, kq, kstream, mem>>


\* _device_apply_resolution: the check, and the runtime resolution it leaves.
ResolutionOk(w, h) ==
    ~(w = 0 \/ w > VIDEO_MAX_WIDTH \/ h = 0 \/ h > VIDEO_MAX_HEIGHT)

device_apply_resolution(res, w, h) ==
    IF ResolutionOk(w, h) THEN <<w, h>> ELSE res

\* _device_apply_dv_timings: VIDIOC_QUERY_DV_TIMINGS answers dv (with its
\* geometry) or fails; then VIDIOC_S_DV_TIMINGS, or VIDIOC_QUERYSTD / VIDIOC_S_STD.
DvAnswers ==
    [kind : {"dv"}, set_ok : BOOLEAN, w : Widths, h : Heights, std : {"UNKNOWN"}]
    \cup [kind : {"std"}, set_ok : BOOLEAN, w : {0}, h : {0}, std : {"PAL"}]
    \cup [kind : {"none"}, set_ok : {TRUE}, w : {0}, h : {0}, std : {"UNKNOWN"}]

device_apply_dv_timings_ret(a) ==
    CASE a.kind = "dv" ->
            IF ~a.set_ok THEN 0 - 1
            ELSE IF ~ResolutionOk(a.w, a.h) THEN 0 - 1 ELSE 0
      [] a.kind = "std" -> IF ~a.set_ok THEN 0 - 1 ELSE 0
      [] OTHER -> 0

\* _device_open_dv_timings: the configured resolution is applied first (its
\* result is not looked at), then the timings and the event subscription.
device_open_dv_timings(a, subscribe_ok) ==
    LET res0 == device_apply_resolution(<<width, height>>, dev.width, dev.height)
        res1 == IF dev.dv_timings /\ a.kind = "dv" /\ a.set_ok
                THEN device_apply_resolution(res0, a.w, a.h)
                ELSE res0
    IN  /\ width' = res1[1]
        /\ height' = res1[2]
        /\ dev' = IF dev.dv_timings /\ a.kind = "std"
                  THEN [dev EXCEPT !.standard = a.std]
                  ELSE dev
        /\ step_ret' = IF ~dev.dv_timings THEN 0
                       ELSE IF device_apply_dv_timings_ret(a) < 0 THEN 0 - 1
                       ELSE IF ~subscribe_ok THEN 0 - 1
                       ELSE 0
        /\ olog' = [OpenLogs("dv_timings", 0) EXCEPT !.rejected =
                        (IF ResolutionOk(dev.width, dev.height) THEN {} ELSE {"desired"})
                        \cup (IF /\ dev.dv_timings /\ a.kind = "dv" /\ a.set_ok
                                 /\ ~ResolutionOk(a.w, a.h)
                              THEN {"timing"} ELSE {})]

OpenDvTimings ==
    /\ pc = "dv_timings"
    /\ \E a \in DvAnswers, subscribe_ok \in BOOLEAN :
          device_open_dv_timings(a, subscribe_ok)
    /\ OpenGoto("format")
    /\ UNCHANGED <<obsVars, capturing, runVars, format, raw_size, open_ret, index, grabVars,
                   relVars, out, sw, kq, kstream, mem>>

\* _device_open_format: VIDIOC_S_FMT fails or grants a resolution, a pixel
\* format and an image size.
FmtGrants ==
    [w : Widths, h : Heights, pixelformat : {"YUYV", "MJPEG", "XXXX"},
     sizeimage : {1, 2}]

\* A table lookup that finds every fourcc.
format_to_string_any(f) == f

format_to_string_nullable(f) == IF f \in FORMATS THEN f ELSE "NULL"

device_open_format(ok, g) ==
    LET res == device_apply_resolution(<<width, height>>, g.w, g.h)
        bad_res == ~ResolutionOk(g.w, g.h)
        bad_fmt == g.pixelformat # dev.format
                   /\ format_to_string_nullable(g.pixelformat) = "NULL"
    IN  /\ width' = IF ok THEN res[1] ELSE width
        /\ height' = IF ok THEN res[2] ELSE height
        /\ step_ret' = IF ~ok \/ bad_res \/ bad_fmt THEN 0 - 1 ELSE 0
        /\ format' = IF step_ret' = 0 THEN g.pixelformat ELSE format
        /\ raw_size' = IF step_ret' = 0 THEN g.sizeimage ELSE raw_size
        /\ olog' = [OpenLogs("format", 0) EXCEPT
                        !.rejected = IF ok /\ bad_res THEN @ \cup {"negotiated"} ELSE @,
                        !.grant = IF ok THEN g.pixelformat ELSE @,
                        !.sizeimage = IF ok THEN g.sizeimage ELSE @]

OpenFormatOf(grants) ==
    /\ pc = "format"
    /\ \E ok \in BOOLEAN, g \in grants : device_open_format(ok, g)
    /\ OpenGoto("hw_fps")
    /\ UNCHANGED <<obsVars, dev, capturing, runVars, open_ret, index, grabVars, relVars,
                   out, sw, kq, kstream, mem>>

OpenFormat == OpenFormatOf(FmtGrants)

\* The device grants the requested geometry, in the requested pixel format or
\* in one the program does not know, and one image size.
PlainGrants ==
    {g \in FmtGrants : /\ g.w = dev.width /\ g.h = dev.height
                       /\ g.pixelformat # "MJPEG" /\ g.sizeimage = 1}

OpenFormatPlain == OpenFormatOf(PlainGrants)

\* _device_open_hw_fps: best effort, never fatal (run->hw_fps is not modelled).
OpenHwFps ==
    /\ pc = "hw_fps"
    /\ pc' = "io_method"
    /\ olog' = OpenLogs("hw_fps", 0)
    /\ UNCHANGED <<obsVars, dev, capturing, runVars, fmtVars, step_ret, open_ret,
                   fatal, index, grabVars, relVars,
                   out, sw, kq, kstream, mem>>

\* _device_open_io_method_mmap / _userptr up to A_CALLOC: VIDIOC_REQBUFS fails
\* or grants `count` buffers.
device_open_io_method_reqbufs(ok, count) ==
    /\ step_ret' = IF ~ok \/ count < 1 THEN 0 - 1 ELSE 0
    /\ IF step_ret' = 0
       THEN /\ hw_buffers' = [i \in 0..(count - 1) |-> ZeroHwBuffer]
            /\ n_buffers' = 0
       ELSE UNCHANGED <<hw_buffers, n_buffers>>
    /\ kq' = IF ok THEN [i \in 0..(count - 1) |-> "user"] ELSE kq
    /\ olog' = [OpenLogs("io_method", 0) EXCEPT !.granted = IF ok THEN count ELSE @]

OpenIoMethod ==
    /\ pc = "io_method"
    /\ \E ok \in BOOLEAN, count \in 0..dev.n_buffers :
          device_open_io_method_reqbufs(ok, count)
    /\ OpenGoto(IF dev.io_method = "MMAP" THEN "io_mmap" ELSE "io_userptr")
    /\ UNCHANGED <<obsVars, dev, capturing, fd, n_workers, pictures, fmtVars, open_ret, index,
                   grabVars, relVars, out, sw, kstream, mem>>

ReqCount == Cardinality(DOMAIN hw_buffers)

\* One round of _device_open_io_method_mmap's loop, for buffer n_buffers.
MmapAnswers == {"ok", "querybuf_fail", "mmap_fail"}
BufLengths == {1}

device_open_io_method_mmap(answer, length) ==
    LET n == n_buffers IN
    /\ step_ret' = IF answer = "ok" THEN 0 ELSE 0 - 1
    /\ hw_buffers' =
          CASE answer = "querybuf_fail" -> hw_buffers
            [] answer = "mmap_fail" ->
                  [hw_buffers EXCEPT ![n].mutex_init = TRUE, ![n].data = "MAP_FAILED"]
            [] OTHER ->
                  [hw_buffers EXCEPT ![n].mutex_init = TRUE, ![n].data = "MAPPED",
                                     ![n].allocated = length]
    /\ mem' = IF answer = "ok" THEN [mem EXCEPT ![n].map = @ + 1] ELSE mem
    /\ n_buffers' = IF answer = "ok" THEN n + 1 ELSE n

OpenIoMmap ==
    /\ pc = "io_mmap"
    /\ n_buffers < ReqCount
    /\ \E answer \in MmapAnswers, length \in BufLengths :
          device_open_io_method_mmap(answer, length)
    /\ OpenGoto(IF n_buffers' < ReqCount THEN "io_mmap" ELSE "queue")
    /\ UNCHANGED <<olog, obsVars, dev, capturing, fd, n_workers, pictures, fmtVars, open_ret, index,
                   grabVars, relVars, out, sw, kq, kstream>>

\* One round of _device_open_io_method_userptr's loop: aligned_alloc (asserted
\* to succeed), memset, allocated = buf_size (sizes are counted in pages).
device_open_io_method_userptr ==
    LET n == n_buffers IN
    /\ step_ret' = 0
    /\ hw_buffers' = [hw_buffers EXCEPT ![n].data = "ALLOCATED",
                                        ![n].allocated = raw_size]
    /\ mem' = [mem EXCEPT ![n].alloc = @ + 1]
    /\ n_buffers' = n + 1

OpenIoUserptr ==
    /\ pc = "io_userptr"
    /\ n_buffers < ReqCount
    /\ device_open_io_method_userptr
    /\ OpenGoto(IF n_buffers' < ReqCount THEN "io_userptr" ELSE "queue")
    /\ UNCHANGED <<olog, obsVars, dev, capturing, fd, n_workers, pictures, fmtVars, open_ret, index,
                   grabVars, relVars, out, sw, kq, kstream>>

\* An enqueue loop that stops after its first buffer.
device_open_queue_buffers_once(ok) ==
    /\ step_ret' = IF ok THEN 0 ELSE 0 - 1
    /\ kq' = IF ok THEN [kq EXCEPT ![index] = "queued"] ELSE kq
    /\ index' = IF ok THEN n_buffers ELSE index
    /\ olog' = OpenLogs("qbuf", index)

\* One round of _device_open_queue_buffers' loop: VIDIOC_QBUF of buffer `index`.
device_open_queue_buffers(ok) ==
    /\ step_ret' = IF ok THEN 0 ELSE 0 - 1
    /\ kq' = IF ok THEN [kq EXCEPT ![index] = "queued"] ELSE kq
    /\ index' = IF ok THEN index + 1 ELSE index
    /\ olog' = OpenLogs("qbuf", index)

OpenQueueBuffers ==
    /\ pc = "queue"
    /\ index < n_buffers
    /\ \E ok \in BOOLEAN : device_open_queue_buffers(ok)
    /\ OpenGoto(IF index' < n_buffers THEN "queue" ELSE "picbufs")
    /\ UNCHANGED <<obsVars, dev, capturing, runVars, fmtVars, open_ret, grabVars, relVars,
                   out, sw, kstream, mem>>

\* _device_open_alloc_picbufs
OpenAllocPicbufs ==
    /\ pc = "picbufs"
    /\ pictures' = [i \in 0..(n_buffers - 1) |-> 0]
    /\ pc' = "controls"
    /\ olog' = OpenLogs("picbufs", 0)
    /\ UNCHANGED <<obsVars, dev, capturing, fd, n_buffers, n_workers, hw_buffers, fmtVars,
                   step_ret, open_ret, fatal, index, grabVars, relVars, out, sw, kq, kstream, mem>>

\* ------------------------------------------------- _device_apply_controls
\* C's remainder (the sign of the dividend), for a positive divisor.
c_rem(a, b) == IF a >= 0 THEN a % b ELSE 0 - ((0 - a) % b)

\* _device_set_control(dev, query, name, cid, value, quiet): the VIDIOC_S_CTRL
\* requests it issues (none when the value fails the check); ok is the answer
\* of the request, which is only logged.
device_set_control(query, cid, value, ok) ==
    IF value < query.minimum \/ value > query.maximum
          \/ c_rem(value, query.step) # 0
    THEN <<>>
    ELSE <<<<IF ok THEN "ctrl" ELSE "ctrl_fail", cid, value>>>>

\* A _device_set_control call on its own: any descriptor whose values are
\* minimum, minimum + step, ... maximum, and any value around them.
ControlCalls ==
    {[state |-> "called", minimum |-> m, maximum |-> m + k * st, step |-> st,
      value |-> v, writes |-> <<>>] :
        m \in (0 - 2)..1, st \in 1..3, k \in 0..2, v \in (0 - 3)..8}

SetControl ==
    /\ ctl.state = "called"
    /\ \E ok \in BOOLEAN :
          ctl' = [ctl EXCEPT !.state = "done",
                             !.writes = device_set_control(ctl, "control", ctl.value, ok)]
    /\ UNCHANGED <<dev, capturing, runVars, fmtVars, pc, openVars, grabVars, relVars,
                   out, sw, kq, kstream, mem, cl, ev>>

\* dev->ctl: per control a mode and a value; A_CALLOC leaves every mode NONE.
CtlModes == {"NONE", "VALUE", "AUTO", "DEFAULT"}
CtlValues == {1, 4}
DefaultCtl == [brightness |-> [mode |-> "NONE", value |-> 0],
               contrast |-> [mode |-> "NONE", value |-> 0]]
CtlConfigs ==
    [brightness : [mode : CtlModes, value : CtlValues],
     contrast : [mode : CtlModes \ {"AUTO"}, value : CtlValues]]

\* What VIDIOC_QUERYCTRL answers: Unsupported, or a descriptor.
ToggleAnswers ==
    {Unsupported} \cup [supported : {TRUE}, minimum : {0}, maximum : {1}, step : {1},
                        default_value : {0, 1}]
ValueAnswers ==
    {Unsupported} \cup {[supported |-> TRUE, minimum |-> 0, maximum |-> 2, step |-> 1,
                         default_value |-> 1],
                        [supported |-> TRUE, minimum |-> 1, maximum |-> 3, step |-> 2,
                         default_value |-> 1]}

\* SET_CID_VALUE / SET_CID_DEFAULT: what the attempt comes to - the request
\* issued, "ctrl_skip" when the query failed (no value is looked at for a
\* default), "ctrl_reject" when the value failed the check.
SET_CID_VALUE(cid, value, a, ok) ==
    IF ~a.supported THEN <<<<"ctrl_skip", cid, value>>>>
    ELSE IF device_set_control(a, cid, value, ok) = <<>>
         THEN <<<<"ctrl_reject", cid, value>>>>
         ELSE device_set_control(a, cid, value, ok)

SET_CID_DEFAULT(cid, a, ok) ==
    IF ~a.supported THEN <<<<"ctrl_skip", cid, 0>>>>
    ELSE SET_CID_VALUE(cid, a.default_value, a, ok)

CONTROL_MANUAL_CID(cid, c, a, ok) ==
    CASE c.mode = "VALUE" -> SET_CID_VALUE(cid, c.value, a[1], ok[1])
      [] c.mode = "DEFAULT" -> SET_CID_DEFAULT(cid, a[1], ok[1])
      [] OTHER -> <<>>

\* A CONTROL_AUTO_CID that gives the control up when its auto toggle cannot
\* be queried.
CONTROL_AUTO_CID_dependent(cid_auto, cid_manual, c, a, ok) ==
    CASE c.mode = "VALUE" ->
            SET_CID_VALUE(cid_auto, 0, a[1], ok[1])
            \o (IF a[1].supported
                THEN SET_CID_VALUE(cid_manual, c.value, a[2], ok[2]) ELSE <<>>)
      [] c.mode = "AUTO" -> SET_CID_VALUE(cid_auto, 1, a[1], ok[1])
      [] c.mode = "DEFAULT" ->
            SET_CID_VALUE(cid_auto, 0, a[1], ok[1])
            \o (IF a[1].supported
                THEN SET_CID_DEFAULT(cid_manual, a[2], ok[2])
                     \o SET_CID_DEFAULT(cid_auto, a[3], ok[3])
                ELSE <<>>)
      [] OTHER -> <<>>

CONTROL_AUTO_CID(cid_auto, cid_manual, c, a, ok) ==
    CASE c.mode = "VALUE" ->
            SET_CID_VALUE(cid_auto, 0, a[1], ok[1])
            \o SET_CID_VALUE(cid_manual, c.value, a[2], ok[2])
      [] c.mode = "AUTO" -> SET_CID_VALUE(cid_auto, 1, a[1], ok[1])
      [] c.mode = "DEFAULT" ->
            SET_CID_VALUE(cid_auto, 0, a[1], ok[1])
            \o SET_CID_DEFAULT(cid_manual, a[2], ok[2])
            \o SET_CID_DEFAULT(cid_auto, a[3], ok[3])
      [] OTHER -> <<>>

\* _device_apply_controls, never fatal: brightness stands for the controls with
\* an auto toggle, contrast for those without. a and ok are the answers to the
\* queries and to the writes, in the order they are made.
device_apply_controls(c, a, ok) ==
    CONTROL_AUTO_CID("brightness_auto", "brightness", c.brightness,
                     <<a[1], a[2], a[3]>>, <<ok[1], ok[2], ok[3]>>)
    \o CONTROL_MANUAL_CID("contrast", c.contrast, <<a[4]>>, <<ok[4]>>)

\* The queries _device_apply_controls makes with the settings c: the device
\* answers those, and the writes that follow them, and no others.
Asked(c) ==
    <<c.brightness.mode \in {"VALUE", "AUTO", "DEFAULT"},
      c.brightness.mode \in {"VALUE", "DEFAULT"},
      c.brightness.mode = "DEFAULT",
      c.contrast.mode \in {"VALUE", "DEFAULT"}>>

ControlAnswers(c) ==
    (IF Asked(c)[1] THEN ToggleAnswers ELSE {Unsupported})
    \X (IF Asked(c)[2] THEN ValueAnswers ELSE {Unsupported})
    \X (IF Asked(c)[3] THEN ToggleAnswers ELSE {Unsupported})
    \X (IF Asked(c)[4] THEN ValueAnswers ELSE {Unsupported})

WriteAnswers(c) ==
    (IF Asked(c)[1] THEN BOOLEAN ELSE {TRUE})
    \X (IF Asked(c)[2] THEN BOOLEAN ELSE {TRUE})
    \X (IF Asked(c)[3] THEN BOOLEAN ELSE {TRUE})
    \X (IF Asked(c)[4] THEN BOOLEAN ELSE {TRUE})

OpenApplyControlsOf(configs) ==
    /\ pc = "controls"
    /\ pc' = "clamp"
    /\ \E c \in configs :
          \E a \in ControlAnswers(c), ok \in WriteAnswers(c) :
             olog' = [olog EXCEPT !.steps = @ \o device_apply_controls(c, a, ok),
                                  !.ctl = c, !.answers = a]
    /\ UNCHANGED <<obsVars, dev, capturing, runVars, fmtVars, step_ret, open_ret,
                   fatal, index, grabVars, relVars, out, sw, kq, kstream, mem>>

OpenApplyControls == OpenApplyControlsOf({DefaultCtl})

OpenApplyControlsAny == OpenApplyControlsOf(CtlConfigs)

\* device_open's last statements: the worker clamp and return 0
OpenFinish ==
    /\ pc = "clamp"
    /\ n_workers' = min_u(n_buffers, dev.n_workers)
    /\ open_ret' = 0
    /\ pc' = "open_done"
    /\ olog' = OpenLogs("clamp", 0)
    /\ UNCHANGED <<obsVars, dev, capturing, fd, n_buffers, hw_buffers, pictures, fmtVars,
                   step_ret, fatal, index, grabVars, relVars, out, sw, kq, kstream, mem>>

\* device_open's error label: device_close and return -1
OpenError ==
    /\ pc = "error"
    /\ \E unmapFails \in SUBSET Indices, closeFails \in BOOLEAN :
          device_close(unmapFails, closeFails)
    /\ open_ret' = 0 - 1
    /\ pc' = "open_done"
    /\ UNCHANGED <<olog, ev, ctl, dev, capturing, fmtVars, step_ret, fatal, index, grabVars,
                   relVars, sw>>

\* device_open has returned: its return value and locals are gone
OpenReturn ==
    /\ pc = "open_done"
    /\ pc' = "idle"
    /\ open_ret' = 1
    /\ step_ret' = 0
    /\ fatal' = "none"
    /\ index' = 0
    /\ dev' = [DefaultConfig EXCEPT !.io_method = dev.io_method]
    /\ olog' = NoOpenLog
    /\ cl' = NoClose
    /\ UNCHANGED <<ev, ctl, capturing, runVars, fmtVars, grabVars, relVars, out, sw,
                   kq, kstream, mem>>

OpenRest ==
    \/ OpenCheckCap
    \/ OpenDvTimings
    \/ OpenHwFps
    \/ OpenIoMethod
    \/ OpenIoMmap
    \/ OpenQueueBuffers
    \/ OpenAllocPicbufs
    \/ OpenFinish
    \/ OpenError
    \/ OpenReturn

Open ==
    \/ OpenDevice
    \/ OpenFormat
    \/ OpenIoUserptr
    \/ OpenApplyControls
    \/ OpenRest

OpenPlain ==
    \/ OpenDevicePlain
    \/ OpenFormatPlain
    \/ OpenIoUserptr
    \/ OpenApplyControls
    \/ OpenRest

\* device_open with any control settings, on a device that answers the
\* control requests in any way.
OpenControls ==
    \/ OpenDevicePlain
    \/ OpenFormatPlain
    \/ OpenIoUserptr
    \/ OpenApplyControlsAny
    \/ OpenRest

OpenMmap ==
    \/ OpenDeviceMmap
    \/ OpenFormatPlain
    \/ OpenApplyControls
    \/ OpenRest

\* ------------------------------------------------- device_switch_capturing
\* Variants of device_switch_capturing: one that sets the flag before it looks
\* at the answer, one that gives up on any failed request, one that does not
\* compare the argument with the flag.
device_switch_capturing_eager(cap, enable, ok) ==
    IF enable # cap
    THEN [requests |-> <<IF enable THEN "STREAMON" ELSE "STREAMOFF">>,
          capturing |-> enable,
          ret |-> IF ~ok /\ enable THEN 0 - 1 ELSE 0]
    ELSE [requests |-> <<>>, capturing |-> cap, ret |-> 0]

device_switch_capturing_blockable(cap, enable, ok) ==
    IF enable # cap
    THEN [requests |-> <<IF enable THEN "STREAMON" ELSE "STREAMOFF">>,
          capturing |-> IF ~ok THEN cap ELSE enable,
          ret |-> IF ~ok THEN 0 - 1 ELSE 0]
    ELSE [requests |-> <<>>, capturing |-> cap, ret |-> 0]

device_switch_capturing_always(cap, enable, ok) ==
    [requests |-> <<IF enable THEN "STREAMON" ELSE "STREAMOFF">>,
     capturing |-> IF ~ok /\ enable THEN cap ELSE enable,
     ret |-> IF ~ok /\ enable THEN 0 - 1 ELSE 0]

\* cap: run->capturing; enable: the argument; ok: the answer of VIDIOC_STREAMON /
\* VIDIOC_STREAMOFF. The result: the requests issued, the flag, the return value.
device_switch_capturing(cap, enable, ok) ==
    IF enable # cap
    THEN [requests |-> <<IF enable THEN "STREAMON" ELSE "STREAMOFF">>,
          capturing |-> IF ~ok /\ enable THEN cap ELSE enable,
          ret |-> IF ~ok /\ enable THEN 0 - 1 ELSE 0]
    ELSE [requests |-> <<>>, capturing |-> cap, ret |-> 0]

\* The kernel's side of the requests: a stream-on that succeeds starts the
\* stream, a stream-off that succeeds stops it and takes every buffer out of
\* the queues. On a closed descriptor a request can only fail.
SwitchCapturingOf(enables) ==
    /\ pc = "idle"
    /\ \E enable \in enables, ok \in (IF fd >= 0 THEN BOOLEAN ELSE {FALSE}) :
          LET r == device_switch_capturing(capturing, enable, ok)
              on == ok /\ "STREAMON" \in Range(r.requests)
              off == ok /\ "STREAMOFF" \in Range(r.requests)
          IN  /\ capturing' = r.capturing
              /\ sw' = [enable |-> enable, was |-> capturing,
                        requests |-> r.requests,
                        io |-> IF r.requests = <<>> THEN "NONE"
                               ELSE IF ok THEN "ok" ELSE "fail",
                        ret |-> r.ret]
              /\ kstream' = IF on THEN TRUE ELSE IF off THEN FALSE ELSE kstream
              /\ kq' = IF off THEN [i \in DOMAIN kq |-> "user"] ELSE kq
    /\ pc' = "switch_done"
    /\ UNCHANGED <<obsVars, dev, runVars, fmtVars, openVars, grabVars, relVars, out, mem>>

SwitchCapturing == SwitchCapturingOf(BOOLEAN)

SwitchOn == SwitchCapturingOf({TRUE})

SwitchReturn ==
    /\ pc = "switch_done"
    /\ pc' = "idle"
    /\ sw' = NoSwitch
    /\ UNCHANGED <<obsVars, dev, capturing, runVars, fmtVars, openVars, grabVars, relVars,
                   out, kq, kstream, mem>>

\* ---------------------------------------------------- device_consume_event
\* The event types VIDIOC_DQEVENT can hand out; "NONE": nothing was dequeued.
EventTypes == {"SOURCE_CHANGE", "EOS", "VSYNC"}

\* A device_consume_event that takes every event it knows for a reason to reopen.
device_consume_event_eager(dequeued, type) ==
    IF dequeued /\ type \in {"SOURCE_CHANGE", "EOS"} THEN 0 - 1 ELSE 0

\* dequeued: VIDIOC_DQEVENT answered 0; type: event.type. The return value.
device_consume_event(dequeued, type) ==
    IF dequeued
    THEN CASE type = "SOURCE_CHANGE" -> 0 - 1
           [] type = "EOS" -> 0
           [] OTHER -> 0
    ELSE 0

ConsumeEvent ==
    /\ pc = "idle"
    /\ \E dequeued \in (IF fd >= 0 THEN BOOLEAN ELSE {FALSE}), type \in EventTypes :
          LET t == IF dequeued THEN type ELSE "NONE" IN
          ev' = [dequeued |-> dequeued, type |-> t,
                 ret |-> device_consume_event(dequeued, t)]
    /\ pc' = "event_done"
    /\ UNCHANGED <<dev, capturing, runVars, fmtVars, openVars, grabVars, relVars,
                   out, sw, kq, kstream, mem, cl, ctl>>

EventReturn ==
    /\ pc = "event_done"
    /\ pc' = "idle"
    /\ ev' = NoEvent
    /\ UNCHANGED <<dev, capturing, runVars, fmtVars, openVars, grabVars, relVars,
                   out, sw, kq, kstream, mem, cl, ctl>>

\* ------------------------------------------------------------- the kernel
\* The driver fills a queued buffer while the stream is on.
KernelComplete ==
    /\ kstream
    /\ \E i \in DOMAIN kq :
          /\ kq[i] = "queued"
          /\ kq' = [kq EXCEPT ![i] = "done"]
    /\ UNCHANGED <<obsVars, dev, capturing, runVars, fmtVars, pc, openVars, grabVars, relVars,
                   out, sw, kstream, mem>>

\* ------------------------------------------------------ device_grab_buffer
\* What a failing grab must leave alone: per slot, the grabbed flag, bytes
\* used, the stored kernel descriptor and the picture's grab timestamp.
SlotView ==
    [i \in DOMAIN hw_buffers |->
        <<hw_buffers[i].grabbed, hw_buffers[i].used, hw_buffers[i].buf_info,
          IF i \in DOMAIN pictures THEN pictures[i] ELSE 0>>]

GrabTracks == grab_dirty' = (grab_dirty \/ SlotView' # SlotView)

\* An open session: device_open has returned 0 and device_close has not run.
SessionOpen == n_workers > 0

\* VIDIOC_DQBUF and the bounds check: ok says whether the request succeeded,
\* i and b are the index and bytesused it answered.
device_grab_buffer_dqbuf(ok, i, b) ==
    /\ buf_info' = IF ok THEN CaptureBuf(i, b) ELSE buf_info
    /\ IF ~ok \/ i >= n_buffers
       THEN /\ grab_ret' = 0 - 1
            /\ pc' = "grab_done"
       ELSE /\ grab_ret' = grab_ret
            /\ pc' = "grab_lock"

\* The kernel hands out a buffer it has completed, or the request fails. oks:
\* the answers VIDIOC_DQBUF may give.
GrabDequeueOf(oks) ==
    /\ pc = "idle"
    /\ SessionOpen
    /\ \E ok \in oks :
          IF ok
          THEN \E i \in DOMAIN kq, b \in BytesUsed :
                  /\ kq[i] = "done"
                  /\ device_grab_buffer_dqbuf(TRUE, i, b)
                  /\ kq' = [kq EXCEPT ![i] = "user"]
          ELSE /\ device_grab_buffer_dqbuf(FALSE, 0, 0)
               /\ kq' = kq
    /\ UNCHANGED <<obsVars, dev, capturing, runVars, fmtVars, openVars, relVars, out, sw,
                   kstream, mem>>
    /\ GrabTracks

GrabDequeue == GrabDequeueOf(BOOLEAN)

\* A driver that breaks the protocol: it answers an index outside the pool, or
\* the index of a slot that a consumer still holds.
GrabDequeueBogus ==
    /\ pc = "idle"
    /\ SessionOpen
    /\ \E i \in 0..MaxBuffers, b \in BytesUsed :
          /\ IF i \in DOMAIN hw_buffers
             THEN kq[i] # "done" /\ hw_buffers[i].grabbed
             ELSE TRUE
          /\ device_grab_buffer_dqbuf(TRUE, i, b)
    /\ UNCHANGED <<obsVars, dev, capturing, runVars, fmtVars, openVars, relVars, out, sw,
                   kq, kstream, mem>>
    /\ GrabTracks

\* A_MUTEX_LOCK(&HW_BUFFER(grabbed_mutex)): blocks while another thread holds it
GrabLock ==
    /\ pc = "grab_lock"
    /\ hw_buffers[buf_info.index].mutex_owner = NoOwner
    /\ hw_buffers' = [hw_buffers EXCEPT ![buf_info.index].mutex_owner = CaptureThread]
    /\ pc' = "grab_locked"
    /\ UNCHANGED <<obsVars, dev, capturing, fd, n_buffers, n_workers, pictures, fmtVars,
                   openVars, buf_info, grab_ret, relVars, out, sw, kq, kstream, mem>>
    /\ GrabTracks

\* Variants of the critical section: one without the test of the grabbed flag,
\* one whose error path gives the slot back.
device_grab_buffer_check_unguarded ==
    LET i == buf_info.index IN
    /\ hw_buffers' = [hw_buffers EXCEPT ![i].grabbed = TRUE,
                                        ![i].mutex_owner = NoOwner]
    /\ grab_ret' = grab_ret
    /\ pc' = "grab_store"

device_grab_buffer_check_reset ==
    LET i == buf_info.index IN
    IF hw_buffers[i].grabbed
    THEN /\ hw_buffers' = [hw_buffers EXCEPT ![i].grabbed = FALSE,
                                             ![i].mutex_owner = NoOwner]
         /\ grab_ret' = 0 - 1
         /\ pc' = "grab_done"
    ELSE /\ hw_buffers' = [hw_buffers EXCEPT ![i].grabbed = TRUE,
                                             ![i].mutex_owner = NoOwner]
         /\ grab_ret' = grab_ret
         /\ pc' = "grab_store"

\* The critical section: the test of the grabbed flag, its setting, the unlock.
device_grab_buffer_check ==
    LET i == buf_info.index IN
    IF hw_buffers[i].grabbed
    THEN /\ hw_buffers' = [hw_buffers EXCEPT ![i].mutex_owner = NoOwner]
         /\ grab_ret' = 0 - 1
         /\ pc' = "grab_done"
    ELSE /\ hw_buffers' = [hw_buffers EXCEPT ![i].grabbed = TRUE,
                                             ![i].mutex_owner = NoOwner]
         /\ grab_ret' = grab_ret
         /\ pc' = "grab_store"

GrabCheck ==
    /\ pc = "grab_locked"
    /\ device_grab_buffer_check
    /\ UNCHANGED <<obsVars, dev, capturing, fd, n_buffers, n_workers, pictures, fmtVars,
                   openVars, buf_info, relVars, out, sw, kq, kstream, mem>>
    /\ GrabTracks

\* After the unlock: bytes used, the descriptor, the grab timestamp; return index.
device_grab_buffer_store(now) ==
    LET i == buf_info.index IN
    /\ hw_buffers' = [hw_buffers EXCEPT ![i].used = buf_info.bytesused,
                                        ![i].buf_info = buf_info]
    /\ pictures' = [pictures EXCEPT ![i] = now]
    /\ grab_ret' = i
    /\ pc' = "grab_done"

GrabStore ==
    /\ pc = "grab_store"
    /\ \E now \in ClockReadings : device_grab_buffer_store(now)
    /\ out' = out \cup {buf_info.index}
    /\ UNCHANGED <<obsVars, dev, capturing, fd, n_buffers, n_workers, fmtVars, openVars,
                   buf_info, relVars, sw, kq, kstream, mem>>
    /\ GrabTracks

GrabReturn ==
    /\ pc = "grab_done"
    /\ pc' = "idle"
    /\ buf_info' = ZeroBuf
    /\ grab_ret' = 0 - 2
    /\ grab_dirty' = FALSE
    /\ UNCHANGED <<obsVars, dev, capturing, runVars, fmtVars, openVars, relVars, out, sw,
                   kq, kstream, mem>>

Grab ==
    \/ GrabDequeue
    \/ GrabLock
    \/ GrabCheck
    \/ GrabStore
    \/ GrabReturn

\* device_grab_buffer on a device whose VIDIOC_DQBUF never fails.
GrabAccepted ==
    \/ GrabDequeueOf({TRUE})
    \/ GrabLock
    \/ GrabCheck
    \/ GrabStore
    \/ GrabReturn

\* --------------------------------------------------- device_release_buffer
Releasing(i) == \E v \in Workers : rel_pc[v] # "idle" /\ rel_idx[v] = i

\* A_MUTEX_LOCK at the head of device_release_buffer(dev, i), called by worker w.
device_release_buffer_lock(w, i) ==
    /\ rel_pc[w] = "idle"
    /\ hw_buffers[i].mutex_owner = NoOwner
    /\ hw_buffers' = [hw_buffers EXCEPT ![i].mutex_owner = w]
    /\ rel_pc' = [rel_pc EXCEPT ![w] = "locked"]
    /\ rel_idx' = [rel_idx EXCEPT ![w] = i]
    /\ rel_obs' = [rel_obs EXCEPT ![w].clear = ~hw_buffers[i].grabbed]
    /\ UNCHANGED <<obsVars, dev, capturing, fd, n_buffers, n_workers, pictures, fmtVars, pc,
                   openVars, grabVars, rel_ret, out, sw, kq, kstream, mem>>

\* A worker releases an index that a grab handed out.
ReleaseLock ==
    \E w \in Workers, i \in DOMAIN hw_buffers :
       /\ SessionOpen
       /\ w <= n_workers
       /\ i \in out
       /\ ~Releasing(i)
       /\ device_release_buffer_lock(w, i)

\* A consumer that breaks the protocol: it releases an index that nobody holds
\* (the slot's grabbed flag is clear). The workers are interchangeable: the
\* first one is the one that does.
ReleaseLockStray ==
    \E w \in {1}, i \in DOMAIN hw_buffers :
       /\ SessionOpen
       /\ w <= n_workers
       /\ i < n_buffers
       /\ i \notin out
       /\ ~hw_buffers[i].grabbed
       /\ device_release_buffer_lock(w, i)

\* VIDIOC_QBUF of the stored descriptor: the kernel takes a buffer that user
\* space holds; on failure the mutex is unlocked and -1 returned.
QbufAcceptable(desc) ==
    /\ desc.type = "VIDEO_CAPTURE"
    /\ desc.index \in DOMAIN kq
    /\ kq[desc.index] = "user"

\* Variants of the re-enqueue step: one whose error path clears the flag, one
\* that refuses a slot whose flag is clear.
device_release_buffer_qbuf_clearing(w, ok) ==
    LET i == rel_idx[w]
        desc == hw_buffers[i].buf_info
    IN  IF ok
        THEN /\ kq' = [kq EXCEPT ![desc.index] = "queued"]
             /\ rel_pc' = [rel_pc EXCEPT ![w] = "queued"]
             /\ UNCHANGED <<hw_buffers, rel_ret>>
        ELSE /\ hw_buffers' = [hw_buffers EXCEPT ![i].grabbed = FALSE,
                                                 ![i].mutex_owner = NoOwner]
             /\ rel_ret' = [rel_ret EXCEPT ![w] = 0 - 1]
             /\ rel_pc' = [rel_pc EXCEPT ![w] = "done"]
             /\ kq' = kq

device_release_buffer_qbuf_strict(w, ok) ==
    LET i == rel_idx[w]
        desc == hw_buffers[i].buf_info
    IN  IF ok /\ hw_buffers[i].grabbed
        THEN /\ kq' = [kq EXCEPT ![desc.index] = "queued"]
             /\ rel_pc' = [rel_pc EXCEPT ![w] = "queued"]
             /\ UNCHANGED <<hw_buffers, rel_ret>>
        ELSE /\ hw_buffers' = [hw_buffers EXCEPT ![i].mutex_owner = NoOwner]
             /\ rel_ret' = [rel_ret EXCEPT ![w] = 0 - 1]
             /\ rel_pc' = [rel_pc EXCEPT ![w] = "done"]
             /\ kq' = kq

device_release_buffer_qbuf(w, ok) ==
    LET i == rel_idx[w]
        desc == hw_buffers[i].buf_info
    IN  IF ok
        THEN /\ kq' = [kq EXCEPT ![desc.index] = "queued"]
             /\ rel_pc' = [rel_pc EXCEPT ![w] = "queued"]
             /\ UNCHANGED <<hw_buffers, rel_ret>>
        ELSE /\ hw_buffers' = [hw_buffers EXCEPT ![i].mutex_owner = NoOwner]
             /\ rel_ret' = [rel_ret EXCEPT ![w] = 0 - 1]
             /\ rel_pc' = [rel_pc EXCEPT ![w] = "done"]
             /\ kq' = kq

ReleaseQbufOf(oks) ==
    \E w \in Workers, ok \in oks :
       /\ rel_pc[w] = "locked"
       /\ ok => QbufAcceptable(hw_buffers[rel_idx[w]].buf_info)
       /\ device_release_buffer_qbuf(w, ok)
       /\ rel_obs' = [rel_obs EXCEPT ![w].io = IF ok THEN "ok" ELSE "fail"]
       /\ UNCHANGED <<obsVars, dev, capturing, fd, n_buffers, n_workers, pictures, fmtVars,
                      pc, openVars, grabVars, rel_idx, out, sw, kstream, mem>>

ReleaseQbuf == ReleaseQbufOf(BOOLEAN)

\* Variants of the end of the critical section: one that clears the flag and
\* keeps the mutex, one that unlocks and leaves the flag.
device_release_buffer_clear_locked(w) ==
    LET i == rel_idx[w] IN
    /\ hw_buffers' = [hw_buffers EXCEPT ![i].grabbed = FALSE]
    /\ rel_pc' = [rel_pc EXCEPT ![w] = "unlocked"]

device_release_buffer_unlock(w) ==
    LET i == rel_idx[w] IN
    /\ hw_buffers' = [hw_buffers EXCEPT ![i].mutex_owner = NoOwner]
    /\ rel_pc' = [rel_pc EXCEPT ![w] = "unlocked"]

\* HW_BUFFER(grabbed) = false; A_MUTEX_UNLOCK
device_release_buffer_clear(w) ==
    LET i == rel_idx[w] IN
    /\ hw_buffers' = [hw_buffers EXCEPT ![i].grabbed = FALSE,
                                        ![i].mutex_owner = NoOwner]
    /\ rel_pc' = [rel_pc EXCEPT ![w] = "unlocked"]

ReleaseClear ==
    \E w \in Workers :
       /\ rel_pc[w] = "queued"
       /\ device_release_buffer_clear(w)
       /\ out' = out \ {rel_idx[w]}
       /\ UNCHANGED <<obsVars, dev, capturing, fd, n_buffers, n_workers, pictures, fmtVars,
                      pc, openVars, grabVars, rel_idx, rel_ret, rel_obs, sw, kq,
                      kstream, mem>>

\* HW_BUFFER(used) = 0; return 0
device_release_buffer_used(w) ==
    LET i == rel_idx[w] IN
    /\ hw_buffers' = [hw_buffers EXCEPT ![i].used = 0]
    /\ rel_ret' = [rel_ret EXCEPT ![w] = 0]
    /\ rel_pc' = [rel_pc EXCEPT ![w] = "done"]

ReleaseUsed ==
    \E w \in Workers :
       /\ rel_pc[w] = "unlocked"
       /\ device_release_buffer_used(w)
       /\ UNCHANGED <<obsVars, dev, capturing, fd, n_buffers, n_workers, pictures, fmtVars,
                      pc, openVars, grabVars, rel_idx, rel_obs, out, sw, kq, kstream,
                      mem>>

ReleaseReturn ==
    \E w \in Workers :
       /\ rel_pc[w] = "done"
       /\ rel_pc' = [rel_pc EXCEPT ![w] = "idle"]
       /\ rel_ret' = [rel_ret EXCEPT ![w] = 0]
       /\ rel_idx' = [rel_idx EXCEPT ![w] = 0]
       /\ rel_obs' = [rel_obs EXCEPT ![w] = NoRelease]
       /\ UNCHANGED <<obsVars, dev, capturing, runVars, fmtVars, pc, openVars, grabVars,
                      out, sw, kq, kstream, mem>>

Release ==
    \/ ReleaseLock
    \/ ReleaseQbuf
    \/ ReleaseClear
    \/ ReleaseUsed
    \/ ReleaseReturn

\* device_release_buffer on a device whose VIDIOC_QBUF never fails.
ReleaseAccepted ==
    \/ ReleaseLock
    \/ ReleaseQbufOf({TRUE})
    \/ ReleaseClear
    \/ ReleaseUsed
    \/ ReleaseReturn

\* ---------------------------------------------------------- specifications
\* The whole device: every operation, every answer of the environment.
Next ==
    \/ Open
    \/ Close
    \/ CloseReturn
    \/ SwitchCapturing
    \/ SwitchReturn
    \/ KernelComplete
    \/ Grab
    \/ GrabDequeueBogus
    \/ Release
    \/ ReleaseLockStray
    \/ ConsumeEvent
    \/ EventReturn

Spec == Init /\ [][Next]_vars

\* The open / close pipeline alone.
NextOpen ==
    \/ Open
    \/ Close
    \/ CloseReturn

SpecOpen == Init /\ [][NextOpen]_vars

\* The life cycle: open, close and the streaming switch.
NextSwitch ==
    \/ Open
    \/ Close
    \/ CloseReturn
    \/ SwitchCapturing
    \/ SwitchReturn

SpecSwitch == Init /\ [][NextSwitch]_vars

\* A streaming session: the capture thread grabs, the workers release.
NextGrab ==
    \/ OpenPlain
    \/ Close
    \/ CloseReturn
    \/ SwitchCapturing
    \/ SwitchReturn
    \/ KernelComplete
    \/ Grab
    \/ Release

SpecGrab == Init /\ [][NextGrab]_vars

\* Sessions whose stream is switched on and never off.
NextStream ==
    \/ OpenPlain
    \/ Close
    \/ CloseReturn
    \/ SwitchOn
    \/ SwitchReturn
    \/ KernelComplete
    \/ Grab
    \/ Release

SpecStream == Init /\ [][NextStream]_vars

\* A session that is never closed, on a device that accepts every buffer
\* request: the capture thread grabs in a loop, the workers release.
NextLive ==
    \/ OpenPlain
    \/ SwitchOn
    \/ SwitchReturn
    \/ KernelComplete
    \/ GrabAccepted
    \/ ReleaseAccepted

\* The scheduling: every thread that can take its next step takes it (the
\* capture thread inside device_switch_capturing and device_grab_buffer, a
\* worker inside device_release_buffer); the driver fills every buffer that stays queued;
\* VIDIOC_DQBUF hands out the completed buffers in turn, so none is passed
\* over for ever; a consumer gives back every index that it holds.
LiveFairness ==
    /\ \A i \in 0..(MaxBuffers - 1) :
          /\ WF_vars(KernelComplete /\ i \in DOMAIN kq /\ kq'[i] # kq[i])
          /\ SF_vars(GrabDequeueOf({TRUE}) /\ buf_info'.index = i)
          /\ SF_vars(ReleaseLock /\ \E w \in Workers :
                                       rel_pc'[w] = "locked" /\ rel_idx'[w] = i)
    /\ WF_vars(SwitchReturn \/ GrabLock \/ GrabCheck \/ GrabStore \/ GrabReturn)
    /\ \A w \in Workers :
          WF_vars(/\ \/ ReleaseQbufOf({TRUE})
                     \/ ReleaseClear
                     \/ ReleaseUsed
                     \/ ReleaseReturn
                  /\ rel_pc'[w] # rel_pc[w])

SpecLive == Init /\ [][NextLive]_vars /\ LiveFairness

\* One memory-mapped session with a driver that breaks the protocol.
NextBogus ==
    \/ OpenMmap
    \/ SwitchOn
    \/ SwitchReturn
    \/ KernelComplete
    \/ Grab
    \/ GrabDequeueBogus
    \/ Release

SpecBogus == Init /\ [][NextBogus]_vars

\* One memory-mapped session with a consumer that breaks the protocol.
NextStray ==
    \/ OpenMmap
    \/ SwitchOn
    \/ SwitchReturn
    \/ KernelComplete
    \/ Grab
    \/ Release
    \/ ReleaseLockStray

SpecStray == Init /\ [][NextStray]_vars

\* The life cycle with the device's events.
NextEvent ==
    \/ OpenPlain
    \/ Close
    \/ CloseReturn
    \/ SwitchCapturing
    \/ SwitchReturn
    \/ ConsumeEvent
    \/ EventReturn

SpecEvent == Init /\ [][NextEvent]_vars

\* _device_set_control on its own, called with any descriptor and value.
InitSetControl ==
    /\ InitDevice
    /\ ctl \in ControlCalls

NextSetControl ==
    \/ SetControl

SpecSetControl == InitSetControl /\ [][NextSetControl]_vars

\* Opens of a device with controls: any control settings, any answers.
NextControls ==
    \/ OpenControls
    \/ Close
    \/ CloseReturn

SpecControls == Init /\ [][NextControls]_vars

\* -------------------------------------------------------------- properties
\* C1. An index that a successful device_grab_buffer has returned is not
\* returned by another successful device_grab_buffer until a
\* device_release_buffer call for it has succeeded (its VIDIOC_QBUF was
\* accepted and it has cleared the grabbed flag under the slot's lock): at the
\* step that returns index i, i is not handed out.
GrabExclusive ==
    [][\A i \in Indices :
          (pc = "grab_store" /\ pc' = "grab_done" /\ grab_ret' = i)
             => i \notin out]_vars

\* A grab returns an index again, right after a release of it has succeeded:
\* the index is handed out although a release of it has cleared it.
GrabExclusiveWitness ==
    /\ pc = "grab_done"
    /\ grab_ret \in Indices
    /\ grab_ret \in out
    /\ hw_buffers[grab_ret].grabbed
    /\ \E w \in Workers :
          /\ rel_pc[w] = "done"
          /\ rel_idx[w] = grab_ret
          /\ rel_ret[w] = 0
          /\ ~rel_obs[w].clear

\* C2. A device_grab_buffer call that fails - VIDIOC_DQBUF fails, the dequeued
\* index is >= run->n_buffers, or the slot's grabbed flag is already set -
\* returns -1, and has changed no slot's grabbed flag, bytes used, stored
\* descriptor or grab timestamp.
FailingGrabChangesNothing ==
    [][/\ (/\ pc = "idle"
           /\ pc' \in {"grab_lock", "grab_done"}
           /\ (buf_info'.type = "NONE" \/ buf_info'.index >= n_buffers))
          => (pc' = "grab_done" /\ grab_ret' = 0 - 1)
       /\ (/\ pc = "grab_locked"
           /\ pc' # pc
           /\ hw_buffers[buf_info.index].grabbed)
          => (pc' = "grab_done" /\ grab_ret' = 0 - 1)
       /\ (pc' = "grab_done" /\ grab_ret' = 0 - 1) => ~grab_dirty'
      ]_vars

\* A grab has failed on a slot in bounds whose grabbed flag was set.
FailingGrabWitness ==
    /\ pc = "grab_done"
    /\ grab_ret = 0 - 1
    /\ buf_info.type = "VIDEO_CAPTURE"
    /\ buf_info.index < n_buffers
    /\ hw_buffers[buf_info.index].grabbed
    /\ ~grab_dirty

\* C3. Every write of a slot's grabbed flag and of its bytes used, by
\* device_grab_buffer (the capture thread) and by device_release_buffer (a
\* worker), is made by a thread that holds the slot's mutex.
SlotFieldsOnlyUnderLock ==
    [][\A i \in DOMAIN hw_buffers :
          (/\ i \in DOMAIN hw_buffers'
           /\ <<hw_buffers'[i].grabbed, hw_buffers'[i].used>>
                 # <<hw_buffers[i].grabbed, hw_buffers[i].used>>)
          => \/ (pc' # pc /\ hw_buffers[i].mutex_owner = CaptureThread)
             \/ \E w \in Workers :
                   rel_pc'[w] # rel_pc[w] /\ hw_buffers[i].mutex_owner = w]_vars

\* C4. When VIDIOC_QBUF fails, device_release_buffer returns -1 and leaves the
\* slot's grabbed flag and bytes used as they were (a grabbed slot stays
\* grabbed); when it succeeds, the call clears the flag, then sets bytes used
\* to 0 and returns 0.
ReleaseOutcome ==
    [][\A w \in Workers :
          LET i == rel_idx[w] IN
          /\ (rel_pc[w] = "locked" /\ rel_pc'[w] # "locked" /\ rel_obs'[w].io = "fail")
             => /\ rel_pc'[w] = "done"
                /\ rel_ret'[w] = 0 - 1
                /\ hw_buffers'[i].grabbed = hw_buffers[i].grabbed
                /\ hw_buffers'[i].used = hw_buffers[i].used
                /\ rel_obs[w].clear \/ hw_buffers'[i].grabbed
          /\ (rel_pc[w] = "locked" /\ rel_pc'[w] # "locked" /\ rel_obs'[w].io = "ok")
             => rel_pc'[w] = "queued"
          /\ (rel_pc[w] = "queued" /\ rel_pc'[w] # "queued")
             => (rel_pc'[w] = "unlocked" /\ ~hw_buffers'[i].grabbed)
          /\ (rel_pc[w] = "unlocked" /\ rel_pc'[w] # "unlocked")
             => /\ rel_pc'[w] = "done"
                /\ hw_buffers'[i].used = 0
                /\ rel_ret'[w] = 0]_vars

\* A release whose VIDIOC_QBUF failed has returned -1; the slot is still grabbed.
ReleaseOutcomeWitness ==
    \E w \in Workers :
       /\ rel_pc[w] = "done"
       /\ rel_obs[w].io = "fail"
       /\ rel_ret[w] = 0 - 1
       /\ hw_buffers[rel_idx[w]].grabbed
       /\ hw_buffers[rel_idx[w]].used > 0

\* C5, as stated: a device_release_buffer call on an index in bounds whose
\* grabbed flag is clear succeeds.
ClearFlagReleaseSucceeds ==
    \A w \in Workers : (rel_pc[w] = "done" /\ rel_obs[w].clear) => rel_ret[w] = 0

\* C5, amended: a device_release_buffer call on an index in bounds whose
\* grabbed flag is clear succeeds whenever its VIDIOC_QBUF is accepted; the call
\* leaves the flag clear and writes 0 to bytes used, whatever the slot held,
\* so repeated releases leave the slot as one does.
ClearFlagRelease ==
    [][\A w \in Workers :
          LET i == rel_idx[w] IN
          rel_obs[w].clear =>
             /\ (rel_pc[w] = "locked" /\ rel_pc'[w] # "locked" /\ rel_obs'[w].io = "ok")
                => /\ rel_pc'[w] = "queued"
                   /\ ~hw_buffers'[i].grabbed
                   /\ hw_buffers'[i].used = hw_buffers[i].used
             /\ (rel_pc[w] = "queued" /\ rel_pc'[w] # "queued")
                => /\ rel_pc'[w] = "unlocked"
                   /\ ~hw_buffers[i].grabbed
                   /\ ~hw_buffers'[i].grabbed
             /\ (rel_pc[w] = "unlocked" /\ rel_pc'[w] # "unlocked")
                => /\ rel_pc'[w] = "done"
                   /\ hw_buffers'[i].used = 0
                   /\ rel_ret'[w] = 0]_vars

\* A release of a slot whose flag was clear has been accepted and has returned 0:
\* the flag is clear, bytes used is 0.
ClearFlagReleaseWitness ==
    \E w \in Workers :
       /\ rel_pc[w] = "done"
       /\ rel_obs[w].clear
       /\ rel_obs[w].io = "ok"
       /\ rel_ret[w] = 0
       /\ ~hw_buffers[rel_idx[w]].grabbed
       /\ hw_buffers[rel_idx[w]].used = 0

\* C6. device_switch_capturing(true) called with the flag clear (STOPPED)
\* issues one VIDIOC_STREAMON; if it succeeds the flag is set (STREAMING) and
\* the call returns 0, if it fails the flag stays clear and the call returns -1.
StreamOnOutcome ==
    (pc = "switch_done" /\ sw.enable /\ ~sw.was) =>
        /\ sw.requests = <<"STREAMON">>
        /\ (sw.io = "ok") => (capturing /\ sw.ret = 0)
        /\ (sw.io = "fail") => (~capturing /\ sw.ret = 0 - 1)

\* A stream-on has failed: still STOPPED, -1 returned.
StreamOnWitness ==
    /\ pc = "switch_done"
    /\ sw.enable
    /\ ~sw.was
    /\ sw.io = "fail"
    /\ ~capturing
    /\ sw.ret = 0 - 1

\* C7. device_switch_capturing(false) called with the flag set (STREAMING)
\* ends with the flag clear (STOPPED) and returns 0, whether VIDIOC_STREAMOFF
\* succeeds or fails.
StreamOffOutcome ==
    (pc = "switch_done" /\ ~sw.enable /\ sw.was) =>
        /\ sw.requests = <<"STREAMOFF">>
        /\ ~capturing
        /\ sw.ret = 0

\* A stream-off has failed: STOPPED all the same, 0 returned.
StreamOffWitness ==
    /\ pc = "switch_done"
    /\ ~sw.enable
    /\ sw.was
    /\ sw.io = "fail"
    /\ ~capturing
    /\ sw.ret = 0

\* C8. device_switch_capturing called with the value the flag already has
\* issues no request, changes neither the flag nor anything else of the
\* runtime (nor the kernel's queues), and returns 0.
SwitchNoop ==
    [][(pc = "idle" /\ pc' = "switch_done" /\ sw'.enable = capturing) =>
          /\ sw'.requests = <<>>
          /\ sw'.io = "NONE"
          /\ sw'.ret = 0
          /\ UNCHANGED <<dev, capturing, runVars, fmtVars, kq, kstream, mem>>]_vars

\* A switch to STREAMING while STREAMING has returned.
SwitchNoopWitness ==
    /\ pc = "switch_done"
    /\ sw.enable
    /\ sw.was
    /\ capturing
    /\ sw.requests = <<>>
    /\ sw.ret = 0

\* C9. The first step of device_open that fails (open, capability check,
\* timings, format, buffer allocation, buffer enqueue) is the last step that
\* runs: device_open goes to its error label, runs device_close and returns -1,
\* and then fd is -1, there is no hw_buffers and no pictures array, n_buffers
\* is 0 and n_workers is 0.
Closed ==
    /\ fd = 0 - 1
    /\ IsNull(hw_buffers)
    /\ IsNull(pictures)
    /\ n_buffers = 0
    /\ n_workers = 0

FailedOpenIsClosed ==
    /\ fatal # "none" =>
          /\ pc \in {"error", "open_done"}
          /\ (pc = "open_done") => (open_ret = 0 - 1 /\ Closed)
    /\ (pc = "open_done" /\ open_ret = 0 - 1) => fatal # "none"

\* device_open has failed at the enqueue of a buffer, after the pool was
\* allocated, and has returned.
FailedOpenWitness ==
    /\ pc = "open_done"
    /\ fatal = "queue"
    /\ open_ret = 0 - 1
    /\ Closed
    /\ \E i \in Indices : mem[i].map + mem[i].alloc > 0

\* C10. Under both buffer strategies, wherever device_open succeeds or fails,
\* once device_close has run every region that was mapped has been unmapped
\* exactly once and every user-pointer buffer that was allocated has been freed
\* exactly once; nothing is unmapped or freed that was not mapped or allocated.
NoLeak ==
    \A i \in Indices :
       /\ mem[i].unmap <= mem[i].map
       /\ mem[i].map <= 1
       /\ mem[i].free <= mem[i].alloc
       /\ mem[i].alloc <= 1
       /\ IsNull(hw_buffers) => (mem[i].unmap = mem[i].map /\ mem[i].free = mem[i].alloc)

\* device_open has failed in the mapping loop after it had mapped a buffer:
\* device_close has unmapped that buffer.
NoLeakWitness ==
    /\ pc = "open_done"
    /\ fatal = "io_mmap"
    /\ IsNull(hw_buffers)
    /\ mem[0].map = 1
    /\ mem[0].unmap = 1

\* C11. device_close is idempotent and safe on a partially opened runtime:
\* every device_close - the one device_open runs on its error path too - leaves
\* the runtime closed, and a device_close that starts from a closed runtime
\* (directly after another device_close, or after a device_open that failed)
\* unmaps nothing, frees nothing, destroys no lock, closes no descriptor and
\* changes nothing of the runtime.
CloseIdempotent ==
    [][/\ (pc \in {"idle", "error"} /\ pc' \in {"close_done", "open_done"})
          => Closed'
       /\ (pc \in {"idle", "close_done"} /\ pc' \in {"close_done", "close_again"}
           /\ pc' # pc /\ Closed)
          => /\ cl' = NoClose
             /\ UNCHANGED <<runVars, capturing, fmtVars, mem, kq, kstream>>]_vars

\* A second device_close has run directly after one that unmapped or freed a
\* buffer and closed the descriptor: it has done nothing.
CloseIdempotentWitness ==
    /\ pc = "close_again"
    /\ cl = NoClose
    /\ Closed
    /\ \E i \in Indices : mem[i].unmap + mem[i].free > 0

\* C12. device_close always runs to completion: whichever munmap calls fail and
\* whether or not close(fd) fails, the call sets n_workers to 0, frees the
\* pictures, releases every hardware buffer that holds memory and destroys the
\* lock of every buffer counted by n_buffers, frees the hw_buffers array, sets
\* n_buffers to 0, closes an open descriptor and sets fd to -1.
CloseCompletes ==
    [][(pc \in {"idle", "close_done", "error"}
        /\ pc' \in {"close_done", "close_again", "open_done"})
          => LET slots == {i \in DOMAIN hw_buffers : i < n_buffers}
                 held == {i \in Indices :
                            mem[i].map + mem[i].alloc > mem[i].unmap + mem[i].free}
             IN  /\ n_workers' = 0
                 /\ IsNull(pictures') /\ cl'.pictures = ~IsNull(pictures)
                 /\ IsNull(hw_buffers')
                 /\ cl'.unmap \cup cl'.free = held
                 /\ cl'.destroy = slots
                 /\ n_buffers' = 0
                 /\ cl'.fdclose = (fd >= 0)
                 /\ fd' = 0 - 1]_vars

\* A device_close has returned in which a munmap and close(fd) have failed.
CloseCompletesWitness ==
    /\ pc = "close_done"
    /\ cl.unmap_failed # {}
    /\ cl.close_failed
    /\ cl.destroy = cl.unmap
    /\ fd = 0 - 1
    /\ IsNull(hw_buffers)

\* C13. After every successful device_open in which VIDIOC_REQBUFS granted
\* G >= 1 buffers (G may be less than dev->n_buffers), under either buffer
\* strategy, run->n_buffers is G and run->n_workers is the smaller of
\* dev->n_workers and G; a device_open that is granted 0 buffers fails.
WorkerClamp ==
    /\ (pc = "open_done" /\ open_ret = 0) =>
          /\ olog.granted >= 1
          /\ n_buffers = olog.granted
          /\ n_workers <= dev.n_workers
          /\ n_workers <= olog.granted
          /\ n_workers = dev.n_workers \/ n_workers = olog.granted
    /\ (olog.granted = 0) =>
          /\ pc \in {"error", "open_done"}
          /\ pc = "open_done" => open_ret = 0 - 1

\* A user-pointer device_open has succeeded with fewer buffers than it asked
\* for and fewer than it has workers configured.
WorkerClampWitness ==
    /\ pc = "open_done"
    /\ open_ret = 0
    /\ dev.io_method = "USERPTR"
    /\ olog.granted < dev.n_buffers
    /\ olog.granted < dev.n_workers
    /\ n_workers = olog.granted

\* C14. A resolution with a width or height of 0 or above the ceiling is
\* rejected on each of the three paths that derive one in device_open - the
\* configured dev->width x dev->height, the DV timings' geometry, the
\* resolution VIDIOC_S_FMT granted - and a rejection on any of them makes the
\* device_open fail.
RejectedResolutionFailsOpen ==
    /\ (olog.rejected # {}) => pc # "clamp"
    /\ (pc = "open_done" /\ olog.rejected # {}) => open_ret = 0 - 1

\* C15. When VIDIOC_S_FMT grants a pixel format other than dev->format: if the
\* granted format is one of _FORMATS (and the granted resolution is accepted)
\* the open goes on to the next step with run->format and run->raw_size those
\* of the grant; if it is not, _device_open_format fails, the open goes to its
\* error label and run->format is left as it was.
FormatFallback ==
    [][(/\ pc = "format"
        /\ pc' # "format"
        /\ olog'.grant \notin {"NONE", dev.format}) =>
          IF olog'.grant \in FORMATS
          THEN ("negotiated" \notin olog'.rejected)
                  => /\ pc' = "hw_fps"
                     /\ format' = olog'.grant
                     /\ raw_size' = olog'.sizeimage
          ELSE /\ pc' = "error"
               /\ format' = format]_vars

\* The device was asked for YUYV and has granted MJPEG: the open goes on with
\* MJPEG and the granted image size.
FormatFallbackWitness ==
    /\ pc = "hw_fps"
    /\ dev.format = "YUYV"
    /\ olog.grant = "MJPEG"
    /\ format = "MJPEG"
    /\ olog.sizeimage = 2
    /\ raw_size = 2

\* C16. For every control descriptor (minimum, maximum, step) and requested
\* value: a value outside [minimum, maximum] or not a multiple of step is
\* rejected and VIDIOC_S_CTRL is never issued for it; a value on a boundary
\* (minimum, maximum, or minimum + step) is accepted and VIDIOC_S_CTRL is
\* issued with it. The multiples of step are the values a whole number of
\* steps above the minimum: the values V4L2 gives the control, and the reading
\* under which every boundary is one.
ControlValidation ==
    (ctl.state = "done") =>
        LET inside == ctl.minimum <= ctl.value /\ ctl.value <= ctl.maximum
            stepped == (ctl.value - ctl.minimum) % ctl.step = 0
            boundary == ctl.value \in {ctl.minimum, ctl.maximum, ctl.minimum + ctl.step}
        IN  /\ (~inside \/ ~stepped) => ctl.writes = <<>>
            /\ (inside /\ boundary) =>
                  /\ Len(ctl.writes) = 1
                  /\ ctl.writes[1][3] = ctl.value

\* C17. device_consume_event returns -1 (the signal to reopen) exactly when
\* VIDIOC_DQEVENT has dequeued an event and its type is SOURCE_CHANGE; for an
\* EOS event, for any other event type and when the dequeue fails it returns
\* 0; it changes neither the capturing flag nor any buffer slot.
ConsumeEventOutcome ==
    [][(pc = "idle" /\ pc' = "event_done") =>
          /\ ev'.ret \in {0, 0 - 1}
          /\ (ev'.ret = 0 - 1) <=> (ev'.dequeued /\ ev'.type = "SOURCE_CHANGE")
          /\ UNCHANGED <<capturing, hw_buffers, pictures, n_buffers>>]_vars

\* A SOURCE_CHANGE event has been consumed in a STREAMING session: -1.
ConsumeEventWitness ==
    /\ pc = "event_done"
    /\ ev.dequeued
    /\ ev.type = "SOURCE_CHANGE"
    /\ ev.ret = 0 - 1
    /\ capturing
    /\ ~IsNull(hw_buffers)

\* C18. Under both buffer strategies the pool allocation initializes the lock
\* of every hardware buffer: once it is done every slot below run->n_buffers
\* has an initialized mutex, every mutex that device_grab_buffer or
\* device_release_buffer locks has been initialized, and so has every mutex
\* that device_close destroys.
LocksInitialized ==
    [][/\ (pc \in {"queue", "picbufs", "controls", "clamp"})
          => \A i \in DOMAIN hw_buffers : i < n_buffers => hw_buffers[i].mutex_init
       /\ \A i \in DOMAIN hw_buffers :
             (/\ i \in DOMAIN hw_buffers'
              /\ hw_buffers[i].mutex_owner = NoOwner
              /\ hw_buffers'[i].mutex_owner # NoOwner)
             => hw_buffers[i].mutex_init
       /\ (cl' # cl) => \A i \in cl'.destroy : hw_buffers[i].mutex_init]_vars

\* The calls of device_open's body, top to bottom; the four outcomes of a
\* control request count as one step.
StepOrder ==
    <<"open", "check_cap", "dv_timings", "format", "hw_fps", "io_method", "qbuf",
      "picbufs", "ctrl", "clamp">>

StepRank(e) ==
    LET kind == IF e[1] \in {"ctrl", "ctrl_fail", "ctrl_skip", "ctrl_reject"}
                THEN "ctrl" ELSE e[1]
    IN  CHOOSE k \in 1..Len(StepOrder) : StepOrder[k] = kind

\* C19. In every run of device_open the steps happen in the order capability
\* check, timing setup, format negotiation, frame-rate negotiation, pool
\* allocation, enqueue of every allocated buffer (indices 0..G-1, each once),
\* picture preallocation, control application, worker clamp; no control
\* request of any kind is made before format negotiation has succeeded and
\* all G buffers are enqueued, and a device_open that returns 0 has run them all.
OpenStepsOrdered ==
    LET st == olog.steps
        qbufs(k) == {j \in 1..k : st[j][1] = "qbuf"}
        ranks == {StepRank(st[k]) : k \in 1..Len(st)}
    IN  /\ st # <<>> => st[1][1] = "open"
        /\ \A k \in 2..Len(st) :
              \/ StepRank(st[k]) = StepRank(st[k - 1]) + 1
              \/ StepRank(st[k]) = StepRank(st[k - 1])
                    /\ StepOrder[StepRank(st[k])] \in {"qbuf", "ctrl"}
              \/ st[k][1] = "clamp" /\ st[k - 1][1] = "picbufs"
        /\ \A k \in 1..Len(st) :
              /\ st[k][1] = "qbuf" => st[k][3] = Cardinality(qbufs(k)) - 1
              /\ StepOrder[StepRank(st[k])] = "ctrl" =>
                    /\ olog.grant # "NONE" /\ format = olog.grant
                    /\ olog.granted >= 1
                    /\ Cardinality(qbufs(k)) = olog.granted
                    /\ \A i \in 0..(olog.granted - 1) : kq[i] = "queued"
        /\ (pc = "open_done" /\ open_ret = 0) =>
              /\ ranks \cup {StepRank(<<"ctrl", "", 0>>)} = 1..Len(StepOrder)
              /\ Cardinality(qbufs(Len(st))) = olog.granted

\* A device_open was granted two buffers, has made at least two control
\* requests - one of them written - and has returned 0.
OpenStepsOrderedWitness ==
    /\ pc = "open_done"
    /\ open_ret = 0
    /\ olog.granted = 2
    /\ Cardinality({k \in 1..Len(olog.steps) : StepRank(olog.steps[k]) =
                                                StepRank(<<"ctrl", "", 0>>)}) >= 2
    /\ \E k \in 1..Len(olog.steps) : olog.steps[k][1] = "ctrl"

\* The requests device_open has made for the brightness control and its auto
\* toggle, in order; the value a SET_CID_DEFAULT asks for after the answer a.
OfBrightness(e) == e[2] \in {"brightness_auto", "brightness"}

DefaultOf(a) == IF a.supported THEN a.default_value ELSE 0

\* C20. For a control with an auto toggle the writes attempted are, in order:
\* mode VALUE (manual) - toggle := 0, then control := the configured value;
\* mode AUTO - toggle := 1 and nothing else, the control is never written;
\* mode DEFAULT - toggle := 0, then control := its device default, then
\* toggle := its device default. Every attempt of the sequence is made
\* whether or not an earlier one was skipped (query failed), rejected or
\* refused by the device; an attempt is skipped exactly when its query failed.
AutoControlWrites ==
    (pc \in {"clamp", "open_done"} /\ open_ret # 0 - 1) =>
        LET c == olog.ctl.brightness
            a == olog.answers
            w == SelectSeq(olog.steps, OfBrightness)
            at(k) == <<w[k][2], w[k][3]>>
            skipped(k, ans) == (w[k][1] = "ctrl_skip") <=> ~ans.supported
        IN  CASE c.mode = "VALUE" ->
                    /\ Len(w) = 2
                    /\ at(1) = <<"brightness_auto", 0>> /\ skipped(1, a[1])
                    /\ at(2) = <<"brightness", c.value>> /\ skipped(2, a[2])
              [] c.mode = "AUTO" ->
                    /\ Len(w) = 1
                    /\ at(1) = <<"brightness_auto", 1>> /\ skipped(1, a[1])
              [] c.mode = "DEFAULT" ->
                    /\ Len(w) = 3
                    /\ at(1) = <<"brightness_auto", 0>> /\ skipped(1, a[1])
                    /\ at(2) = <<"brightness", DefaultOf(a[2])>> /\ skipped(2, a[2])
                    /\ at(3) = <<"brightness_auto", DefaultOf(a[3])>>
                    /\ skipped(3, a[3])
              [] OTHER -> w = <<>>

\* In mode DEFAULT the first write was skipped, the device default of the
\* control is not 0 and was written, and the toggle's default was refused.
AutoControlWritesWitness ==
    /\ pc = "clamp"
    /\ olog.ctl.brightness.mode = "DEFAULT"
    /\ LET w == SelectSeq(olog.steps, OfBrightness)
       IN  /\ Len(w) = 3
           /\ w[1][1] = "ctrl_skip"
           /\ w[2] = <<"ctrl", "brightness", 1>>
           /\ w[3] = <<"ctrl_fail", "brightness_auto", 1>>

\* C21. In mode DEFAULT, for a control that VIDIOC_QUERYCTRL reports (supported
\* and not disabled), the default value the device reports passes the check of
\* _device_set_control and VIDIOC_S_CTRL is issued with it, whatever descriptor
\* (minimum, maximum, step, default) the device reports.
DefaultIsWritten ==
    (pc \in {"clamp", "open_done"} /\ open_ret # 0 - 1) =>
        LET a == olog.answers
            b == SelectSeq(olog.steps, LAMBDA e : e[2] = "brightness")
            c == SelectSeq(olog.steps, LAMBDA e : e[2] = "contrast")
        IN  /\ (olog.ctl.brightness.mode = "DEFAULT" /\ a[2].supported) =>
                  /\ Len(b) = 1
                  /\ b[1][1] \in {"ctrl", "ctrl_fail"}
                  /\ b[1][3] = a[2].default_value
            /\ (olog.ctl.contrast.mode = "DEFAULT" /\ a[4].supported) =>
                  /\ Len(c) = 1
                  /\ c[1][1] \in {"ctrl", "ctrl_fail"}
                  /\ c[1][3] = a[4].default_value

\* C22. From the return of a successful device_grab_buffer of index i until the
\* next device_release_buffer(i) starts, hw_buffers[i].used is the bytesused
\* that the VIDIOC_DQBUF of that grab reported, also while a worker is still
\* finishing an earlier device_release_buffer(i).
UsedIsReported ==
    \A i \in DOMAIN hw_buffers :
       (/\ i \in out
        /\ ~\E w \in Workers : rel_idx[w] = i /\ rel_pc[w] \in {"locked", "queued"})
       => hw_buffers[i].used = hw_buffers[i].buf_info.bytesused

\* The statement of C23 as written: in an open session every slot is at every
\* moment either held by the kernel (queued or completed, flag clear) or owned
\* by a consumer (flag set), and the two counts add up to n_buffers.
SlotsAccountedAlways ==
    SessionOpen =>
        LET slots == 0..(n_buffers - 1)
            kernel(i) == kq[i] \in {"queued", "done"}
            held(i) == kernel(i) /\ ~hw_buffers[i].grabbed
            owned(i) == hw_buffers[i].grabbed /\ ~kernel(i)
        IN  /\ \A i \in slots : held(i) # owned(i)
            /\ Cardinality({i \in slots : kernel(i)})
                  + Cardinality({i \in slots : hw_buffers[i].grabbed}) = n_buffers

\* C23. In an open session whose stream is never switched off, every slot is
\* in exactly one of two conditions, held by the kernel (queued or completed,
\* grabbed flag clear) or owned by a consumer (grabbed flag set, out of the
\* kernel's queues), at every moment outside two windows: in
\* device_grab_buffer between VIDIOC_DQBUF and the setting of the flag, and in
\* device_release_buffer between the accepted VIDIOC_QBUF and the clearing of
\* the flag. While no slot is in a window, the kernel-held slots plus the
\* grabbed slots number n_buffers.
SlotsAccounted ==
    SessionOpen =>
        LET slots == 0..(n_buffers - 1)
            kernel(i) == kq[i] \in {"queued", "done"}
            held(i) == kernel(i) /\ ~hw_buffers[i].grabbed
            owned(i) == hw_buffers[i].grabbed /\ ~kernel(i)
            busy(i) == \/ pc \in {"grab_lock", "grab_locked"} /\ buf_info.index = i
                       \/ \E w \in Workers : rel_pc[w] = "queued" /\ rel_idx[w] = i
        IN  /\ \A i \in slots : ~busy(i) => (held(i) # owned(i))
            /\ (\A i \in slots : ~busy(i)) =>
                  Cardinality({i \in slots : kernel(i)})
                     + Cardinality({i \in slots : hw_buffers[i].grabbed}) = n_buffers

\* A session in which a slot has been grabbed, released and taken back by the
\* kernel, and is grabbed again, with no call running.
SlotsAccountedWitness ==
    /\ SessionOpen
    /\ pc = "idle"
    /\ WorkersIdle
    /\ \E i \in 0..(n_buffers - 1) :
          /\ hw_buffers[i].grabbed
          /\ i \in out
          /\ kq[i] = "user"
          /\ pictures[i] > 0

\* C24. In an open streaming session whose buffer requests all succeed, under
\* the fairness of LiveFairness: every queued buffer is completed, every slot
\* that is grabbed is ungrabbed later, every slot is grabbed again and again
\* (the session stays streaming, so each slot is grabbed infinitely often), and
\* the capture thread that waits for a slot's lock gets it.
StreamProgress ==
    /\ \A i \in 0..(MaxBuffers - 1) :
          /\ (SessionOpen /\ kstream /\ i < n_buffers /\ kq[i] = "queued")
                ~> (i \in DOMAIN kq /\ kq[i] = "done")
          /\ (SessionOpen /\ kstream /\ i < n_buffers /\ hw_buffers[i].grabbed)
                ~> (i \in DOMAIN hw_buffers /\ ~hw_buffers[i].grabbed)
          /\ (SessionOpen /\ kstream /\ i < n_buffers)
                ~> (i \in DOMAIN hw_buffers /\ hw_buffers[i].grabbed)
    /\ (pc = "grab_lock") ~> (pc = "grab_locked")

\* The capture thread has dequeued a slot and waits for its lock, which a
\* worker that is finishing the release of that slot still holds.
StreamProgressWitness ==
    /\ SessionOpen
    /\ kstream
    /\ pc = "grab_lock"
    /\ \E w \in Workers :
          /\ rel_pc[w] = "queued"
          /\ rel_idx[w] = buf_info.index
          /\ hw_buffers[buf_info.index].mutex_owner = w

\* C25. Only device_switch_capturing writes run->capturing: device_close and
\* device_open leave it as it is. So a flag that is true when the device is
\* closed is still true after the close and after the next successful open,
\* and device_switch_capturing(true) called while the flag is true, on the
\* reopened device too, issues no request, returns 0 and leaves the driver's
\* stream as it is.
CapturingOutlivesClose ==
    [][/\ (capturing' # capturing) => (pc = "idle" /\ pc' = "switch_done")
       /\ (pc = "idle" /\ pc' = "switch_done" /\ capturing /\ sw'.enable) =>
             /\ sw'.requests = <<>>
             /\ sw'.ret = 0
             /\ capturing'
             /\ kstream' = kstream]_vars

\* The device was closed while the flag was true and opened again: the flag is
\* true, the driver does not stream, and device_switch_capturing(true) has
\* returned 0 without a request.
CapturingOutlivesCloseWitness ==
    /\ SessionOpen
    /\ capturing
    /\ ~kstream
    /\ pc = "switch_done"
    /\ sw.enable
    /\ sw.was
    /\ sw.requests = <<>>
    /\ sw.ret = 0

====
